---- MODULE Spec2Model ----
(***************************************************************************)
(* Model of common/level.go: the Level coordinate queries                  *)
(* (MapToPosition, PositionToMap, setupOrientation, Bounds), the tileset   *)
(* builder createTileset and the layer assembler createLevelTiles.         *)
(*                                                                         *)
(* float32 values are modelled as exact rationals <<n, d>> in lowest terms *)
(* with d > 0.  The bounded inputs are small integers and halves, for      *)
(* which the float32 operations used here are exact whenever the divisor   *)
(* is a power of two.                                                      *)
(***************************************************************************)
EXTENDS Integers, Sequences, FiniteSets, TLC

VARIABLES lvl, tileset, ret

vars == <<lvl, tileset, ret>>

-----------------------------------------------------------------------------
(* Bounds of the model *)

\* the integer rows handed to the queries range over -MaxCoord..MaxCoord
MaxCoord == 1
\* TileWidth and TileHeight of a Level range over 1..MaxTileDim
MaxTileDim == 2
\* width and height of a Level (in cells) range over 1..MaxGrid
MaxGrid == 2
\* pixel width and height of a tilesheet image range over 1..MaxSheetPx
MaxSheetPx == 3
\* at most MaxSheets tilesheets are handed to createTileset
MaxSheets == 2
\* at most MaxLayers layers are handed to createLevelTiles
MaxLayers == 2
\* the grid of an assembled Level, and the layers handed to createLevelTiles
\* in all, hold at most MaxCells cells
MaxCells == 4
\* layer mapping entries range over 0..MaxEntry
MaxEntry == 2

-----------------------------------------------------------------------------
(* float32 arithmetic, as exact rationals *)

Abs(n) == IF n < 0 THEN -n ELSE n

RECURSIVE GCD(_, _)
GCD(a, b) == IF b = 0 THEN a ELSE GCD(b, a % b)

\* the rational n/d (d > 0) in lowest terms
Rat(n, d) == LET g == GCD(Abs(n), d) IN <<n \div g, d \div g>>

\* float32(i) of an int i
F32(i) == <<i, 1>>

FAdd(a, b) == Rat(a[1] * b[2] + b[1] * a[2], a[2] * b[2])
FSub(a, b) == Rat(a[1] * b[2] - b[1] * a[2], a[2] * b[2])
FMul(a, b) == Rat(a[1] * b[1], a[2] * b[2])
\* a / b for b # 0 (every divisor of the code is a positive tile or sheet size)
FDiv(a, b) == IF b[1] > 0 THEN Rat(a[1] * b[2], a[2] * b[1])
                          ELSE Rat(-(a[1] * b[2]), -(a[2] * b[1]))

\* int(f) of a float32 f: Go truncates toward zero
ToInt(f) == IF f[1] >= 0 THEN f[1] \div f[2] ELSE -((-f[1]) \div f[2])

\* Go's integer a / b and a % b for b > 0: truncated division, the remainder
\* has the sign of the dividend
GoQuo(a, b) == IF a >= 0 THEN a \div b ELSE -((-a) \div b)
GoRem(a, b) == a - b * GoQuo(a, b)

\* engo.Point
Point(x, y) == [X |-> x, Y |-> y]
ZeroPoint == Point(F32(0), F32(0))

-----------------------------------------------------------------------------
(* Level and its orientation strategy functions *)

Supported == {"orthogonal", "isometric", "staggered"}
Orientations == Supported \cup {"hexagonal"}

\* A strategy function field of Level (MapToPoint, PointToMap, MapMaxBounds):
\* nil, or the closure setupOrientation built, which captured tw, th, hw, hh.
NilFunc == [kind |-> "nil", tw |-> F32(0), th |-> F32(0), hw |-> F32(0), hh |-> F32(0)]

Closure(kind, tw, th, hw, hh) == [kind |-> kind, tw |-> tw, th |-> th, hw |-> hw, hh |-> hh]

\* lvl.MapToPoint(m) for a non-nil f: the closures update m.X first and then
\* read the updated m.X where the code does
CallMapToPoint(f, m) ==
    IF f.kind = "orthogonal" THEN
        Point(FMul(m.X, f.tw), FMul(m.Y, f.th))
    ELSE IF f.kind = "isometric" THEN
        LET X1 == FMul(FSub(m.X, m.Y), f.hw)
        IN  Point(X1, FMul(FAdd(X1, m.Y), f.hh))
    ELSE
        LET staggerX == IF GoRem(ToInt(m.Y), 2) = 1 THEN f.hw ELSE F32(0)
        IN  Point(FAdd(FMul(m.X, f.tw), staggerX), FMul(m.Y, f.hh))

\* lvl.PointToMap(p) for a non-nil f
CallPointToMap(f, p) ==
    IF f.kind = "orthogonal" THEN
        Point(FDiv(p.X, f.tw), FDiv(p.Y, f.th))
    ELSE IF f.kind = "isometric" THEN
        LET X1 == FDiv(FAdd(p.X, p.Y), f.tw)
        IN  Point(X1, FDiv(FSub(p.Y, X1), f.th))
    ELSE
        LET Y0 == p.Y
            Y1 == FDiv(FSub(p.Y, p.X), f.th)
            staggerX == IF GoRem(ToInt(Y1), 2) = 1 THEN f.hw ELSE F32(0)
        IN  Point(FDiv(FSub(FAdd(p.X, Y0), staggerX), f.tw), Y1)

\* lvl.MapMaxBounds() for a non-nil f: reads the Level's fields at call time
CallMapMaxBounds(f, l) ==
    IF f.kind = "orthogonal" THEN
        Point(F32(l.TileWidth * l.width), F32(l.TileHeight * l.height))
    ELSE
        Point(FAdd(F32(l.TileWidth * l.width), F32(l.TileWidth \div 2)),
              FAdd(F32((l.TileHeight \div 2) * l.height), F32(l.TileHeight \div 2)))

\* setupOrientation with a fallback to orthogonal for unknown orientations
setupOrientation_Fallback(l) ==
    LET f == Closure(IF l.Orientation \in Supported THEN l.Orientation ELSE "orthogonal",
                     F32(l.TileWidth), F32(l.TileHeight),
                     F32(l.TileWidth \div 2), F32(l.TileHeight \div 2))
    IN  [err |-> FALSE,
         lvl |-> [l EXCEPT !.MapToPoint = f, !.PointToMap = f, !.MapMaxBounds = f]]

\* setupOrientation: [err, lvl], the error result and the Level afterwards
setupOrientation(l) ==
    LET tw == F32(l.TileWidth)
        th == F32(l.TileHeight)
        hw == F32(l.TileWidth \div 2)
        hh == F32(l.TileHeight \div 2)
    IN  IF l.Orientation \in Supported THEN
            LET f == Closure(l.Orientation, tw, th, hw, hh)
            IN  [err |-> FALSE,
                 lvl |-> [l EXCEPT !.MapToPoint = f, !.PointToMap = f, !.MapMaxBounds = f]]
        ELSE [err |-> TRUE, lvl |-> l]

\* The result of a call: status is "ok", "error" (an error value returned) or
\* "panic" (a Go run-time panic); point is <<>> for a nil *engo.Point and <<p>>
\* otherwise; setup tells whether the call ran setupOrientation.
Result(status, point, l, setup) ==
    [status |-> status, point |-> point, lvl |-> l, setup |-> setup]

\* MapToPosition that sets the orientation up on every call
MapToPosition_AlwaysSetup(l, mp) ==
    LET s == setupOrientation(l)
    IN  IF s.err THEN Result("error", <<>>, s.lvl, TRUE)
        ELSE LET mpc == CallMapToPoint(s.lvl.MapToPoint, mp)
             IN  Result("ok", <<Point(FAdd(mpc.X, s.lvl.Offset.X),
                                      FAdd(mpc.Y, s.lvl.Offset.Y))>>, s.lvl, TRUE)

MapToPosition(l, mp) ==
    LET need == l.MapToPoint.kind = "nil"
        s    == IF need THEN setupOrientation(l) ELSE [err |-> FALSE, lvl |-> l]
    IN  IF s.err THEN Result("error", <<>>, s.lvl, need)
        ELSE LET mpc == CallMapToPoint(s.lvl.MapToPoint, mp)
             IN  Result("ok", <<Point(FAdd(mpc.X, s.lvl.Offset.X),
                                      FAdd(mpc.Y, s.lvl.Offset.Y))>>, s.lvl, need)

PositionToMap(l, p) ==
    LET need == l.PointToMap.kind = "nil"
        s    == IF need THEN setupOrientation(l) ELSE [err |-> FALSE, lvl |-> l]
    IN  IF s.err THEN Result("error", <<>>, s.lvl, need)
        ELSE LET mp == Point(FSub(p.X, s.lvl.Offset.X), FSub(p.Y, s.lvl.Offset.Y))
             IN  Result("ok", <<CallPointToMap(s.lvl.PointToMap, mp)>>, s.lvl, need)

\* Bounds: calling the nil MapMaxBounds panics; box is <<>> or <<[Min, Max]>>
Bounds(l) ==
    IF l.MapMaxBounds.kind = "nil" THEN [status |-> "panic", box |-> <<>>]
    ELSE LET max == CallMapMaxBounds(l.MapMaxBounds, l)
         IN  [status |-> "ok",
              box |-> <<[Min |-> l.Offset,
                         Max |-> Point(FAdd(max.X, l.Offset.X), FAdd(max.Y, l.Offset.Y))]>>]

-----------------------------------------------------------------------------
(* Tileset builder *)

\* a tilesheet: the texture id and pixel size of its image, and its tile size
Sheet(id, w, h, tw, th) ==
    [Texture |-> id, Width |-> F32(w), Height |-> F32(h), TileWidth |-> tw, TileHeight |-> th]

\* the tile createTileset builds in iteration i of the loop over one sheet
\* (int(setWidth) # 0): Image is <<>> for nil and <<texture>> otherwise
SheetTile(sheet, i) ==
    LET tw == F32(sheet.TileWidth)
        th == F32(sheet.TileHeight)
        setWidth == FDiv(sheet.Width, tw)
        x == FMul(F32(GoRem(i, ToInt(setWidth))), tw)
        y == FMul(F32(GoQuo(i, ToInt(setWidth))), th)
        invTexWidth  == FDiv(F32(1), sheet.Width)
        invTexHeight == FDiv(F32(1), sheet.Height)
    IN  [Point |-> ZeroPoint,
         Image |-> <<[id |-> sheet.Texture, width |-> tw, height |-> th,
                      viewport |-> [Min |-> Point(FMul(x, invTexWidth), FMul(y, invTexHeight)),
                                    Max |-> Point(FMul(FAdd(x, tw), invTexWidth),
                                                  FMul(FAdd(y, th), invTexHeight))]]>>]

\* the inner loop of createTileset over one sheet; i % int(setWidth) panics
\* in the first iteration when int(setWidth) = 0
SheetTiles(sheet) ==
    LET setWidth   == FDiv(sheet.Width, F32(sheet.TileWidth))
        setHeight  == FDiv(sheet.Height, F32(sheet.TileHeight))
        totalTiles == ToInt(FMul(setWidth, setHeight))
    IN  IF totalTiles > 0 /\ ToInt(setWidth) = 0
        THEN [status |-> "panic", tiles |-> <<>>]
        ELSE [status |-> "ok", tiles |-> [i \in 1..totalTiles |-> SheetTile(sheet, i - 1)]]

RECURSIVE TilesetFrom(_, _, _)
TilesetFrom(sheets, k, acc) ==
    IF k > Len(sheets) THEN [status |-> "ok", tiles |-> acc]
    ELSE LET s == SheetTiles(sheets[k])
         IN  IF s.status = "panic" THEN [status |-> "panic", tiles |-> <<>>]
             ELSE TilesetFrom(sheets, k + 1, acc \o s.tiles)

\* createTileset: [status, tiles]
createTileset(sheets) == TilesetFrom(sheets, 1, <<>>)

-----------------------------------------------------------------------------
(* Layer assembler *)

\* a parsed layer: its name and the flat TileMapping
Layer(name, w, h, mapping) ==
    [Name |-> name, Width |-> w, Height |-> h, TileMapping |-> mapping]

\* the bottom alignment with the sign of the compensation flipped
AlignBottom_Flipped(tp, image, l) ==
    Point(tp.X, FAdd(tp.Y, FSub(image.height, F32(l.TileHeight))))

\* tp.Y -= t.Image.Height() - float32(lvl.TileHeight)
AlignBottom(tp, image, l) ==
    Point(tp.X, FSub(tp.Y, FSub(image.height, F32(l.TileHeight))))

\* One iteration of the cell loop of createLevelTiles, on acc = [status, tilemap,
\* lvl]: appends the tile of cell (x, i), or panics on an index out of range
\* (mapping[idx], ts[tileIdx]) or on the nil point of a failed MapToPosition.
PlaceTile(mapping, ts, i, x, acc) ==
    LET l   == acc.lvl
        idx == x + i * l.width
    IN  IF idx >= Len(mapping) THEN [acc EXCEPT !.status = "panic"]
        ELSE LET tileIdx == mapping[idx + 1] - 1
             IN  IF tileIdx < 0
                 THEN [acc EXCEPT !.tilemap = Append(@, [Point |-> ZeroPoint, Image |-> <<>>])]
                 ELSE IF tileIdx >= Len(ts) THEN [acc EXCEPT !.status = "panic"]
                 ELSE LET image == ts[tileIdx + 1].Image
                          r     == MapToPosition(l, Point(F32(x), F32(i)))
                      IN  IF r.point = <<>>
                          THEN [acc EXCEPT !.status = "panic", !.lvl = r.lvl]
                          ELSE [acc EXCEPT
                                  !.lvl = r.lvl,
                                  !.tilemap = Append(@,
                                      [Point |-> AlignBottom(r.point[1], image[1], r.lvl),
                                       Image |-> image])]

\* the loops "for i < lvl.height { for x < lvl.width {" of createLevelTiles
RECURSIVE LayerTiles(_, _, _, _, _)
LayerTiles(mapping, ts, i, x, acc) ==
    IF acc.status # "ok" \/ i >= acc.lvl.height THEN acc
    ELSE IF x >= acc.lvl.width THEN LayerTiles(mapping, ts, i + 1, 0, acc)
    ELSE LayerTiles(mapping, ts, i, x + 1, PlaceTile(mapping, ts, i, x, acc))

\* the loop over the layers, on acc = [status, layers, lvl]
RECURSIVE LevelTileLayers(_, _, _, _)
LevelTileLayers(layers, ts, k, acc) ==
    IF k > Len(layers) THEN acc
    ELSE LET layer == layers[k]
             t == LayerTiles(layer.TileMapping, ts, 0, 0,
                             [status |-> "ok", tilemap |-> <<>>, lvl |-> acc.lvl])
         IN  IF t.status # "ok" THEN [status |-> t.status, layers |-> <<>>, lvl |-> t.lvl]
             ELSE LevelTileLayers(layers, ts, k + 1,
                      [acc EXCEPT !.lvl = t.lvl,
                                  !.layers = Append(@, [Name |-> layer.Name,
                                                        Width |-> layer.Width,
                                                        Height |-> layer.Height,
                                                        Tiles |-> t.tilemap])])

\* createLevelTiles: [status, layers, lvl]; a panic returns nothing but leaves
\* the Level as the calls before it set it up
createLevelTiles(l, layers, ts) ==
    LevelTileLayers(layers, ts, 1, [status |-> "ok", layers |-> <<>>, lvl |-> l])

-----------------------------------------------------------------------------
(* Inputs *)

\* the Levels a loader can construct: the strategy functions are nil
Offsets == {ZeroPoint, Point(F32(1), F32(-2))}

NewLevel(o, tw, th, w, h, off) ==
    [Orientation |-> o, MapToPoint |-> NilFunc, PointToMap |-> NilFunc,
     MapMaxBounds |-> NilFunc, width |-> w, height |-> h, Offset |-> off,
     TileWidth |-> tw, TileHeight |-> th]

\* the grids of the Levels the queries are made on: one row or one column
QueryGrids == {<<MaxGrid, 1>>, <<1, MaxGrid>>}

\* the Levels the queries are made on
QueryLevels ==
    {NewLevel(o, tw, th, g[1], g[2], off) :
        o \in Orientations, tw \in 1..MaxTileDim, th \in 1..MaxTileDim,
        g \in QueryGrids, off \in Offsets}

\* map coordinates: columns 0 and 1, integer rows in -MaxCoord..MaxCoord and
\* the fractional rows -1/2 and 1/2
MapRows == {F32(y) : y \in (-MaxCoord)..MaxCoord} \cup {Rat(-1, 2), Rat(1, 2)}
MapCells == {Point(F32(x), y) : x \in 0..1, y \in MapRows}

\* screen positions a caller asks about
ScreenPoints == {Point(F32(x), F32(y)) : x \in 0..1, y \in {-MaxCoord, 0, MaxCoord}}

\* what a caller holds of the last call: the operation, its argument (<<>> or
\* <<point>>), how it ended, the point or box returned, whether it ran
\* setupOrientation, what the argument was made from (the tilesheets, the
\* layers, the map cell of a position) and the layers returned
Ret(op, arg, status, point, box, setup, given, layers) ==
    [op |-> op, arg |-> arg, status |-> status, point |-> point, box |-> box,
     setup |-> setup, given |-> given, layers |-> layers]

NoRet == Ret("none", <<>>, "ok", <<>>, <<>>, FALSE, <<>>, <<>>)

-----------------------------------------------------------------------------
(* The Level query surface *)

Init ==
    /\ lvl \in QueryLevels
    /\ tileset = <<>>
    /\ ret = NoRet

DoMapToPosition(mp) ==
    LET r == MapToPosition(lvl, mp)
    IN  /\ lvl' = r.lvl
        /\ ret' = Ret("MapToPosition", <<mp>>, r.status, r.point, <<>>, r.setup, <<>>, <<>>)
        /\ UNCHANGED tileset

\* from is <<c>> when p is the position MapToPosition returned for the map
\* cell c, and <<>> otherwise
DoPositionToMap(p, from) ==
    LET r == PositionToMap(lvl, p)
    IN  /\ lvl' = r.lvl
        /\ ret' = Ret("PositionToMap", <<p>>, r.status, r.point, <<>>, r.setup, from, <<>>)
        /\ UNCHANGED tileset

\* a caller invokes the public field lvl.MapToPoint itself; nil panics
DoMapToPoint(m) ==
    /\ ret' = IF lvl.MapToPoint.kind = "nil"
              THEN Ret("MapToPoint", <<m>>, "panic", <<>>, <<>>, FALSE, <<>>, <<>>)
              ELSE Ret("MapToPoint", <<m>>, "ok", <<CallMapToPoint(lvl.MapToPoint, m)>>,
                       <<>>, FALSE, <<>>, <<>>)
    /\ UNCHANGED <<lvl, tileset>>

DoBounds ==
    LET r == Bounds(lvl)
    IN  /\ ret' = Ret("Bounds", <<>>, r.status, <<>>, r.box, FALSE, <<>>, <<>>)
        /\ UNCHANGED <<lvl, tileset>>

\* the owner of the Level assigns its public Orientation field
SetOrientation(o) ==
    /\ o # lvl.Orientation
    /\ lvl' = [lvl EXCEPT !.Orientation = o]
    /\ UNCHANGED <<tileset, ret>>

\* a position query: any screen point, or the point the preceding
\* MapToPosition returned
Query ==
    \/ \E mp \in MapCells : DoMapToPosition(mp)
    \/ \E p \in ScreenPoints : DoPositionToMap(p, <<>>)
    \/ /\ ret.op = "MapToPosition" /\ ret.status = "ok"
       /\ DoPositionToMap(ret.point[1], ret.arg)

Next ==
    \/ Query
    \/ \E m \in MapCells : DoMapToPoint(m)
    \/ DoBounds
    \/ \E o \in Orientations : SetOrientation(o)

Spec == Init /\ [][Next]_vars

-----------------------------------------------------------------------------
(* The tileset builder on its own *)

\* tilesheet lists: sheet k of a list carries texture k
SheetSizes ==
    {<<w, h, tw, th>> : w \in 1..MaxSheetPx, h \in 1..MaxSheetPx,
                        tw \in 1..MaxTileDim, th \in 1..MaxTileDim}

SheetList(sizes) ==
    [k \in 1..Len(sizes) |-> Sheet(k, sizes[k][1], sizes[k][2], sizes[k][3], sizes[k][4])]

InitTileset ==
    /\ lvl = NewLevel("orthogonal", 1, 1, 1, 1, ZeroPoint)
    /\ tileset = <<>>
    /\ ret = NoRet

DoCreateTileset(sheets) ==
    LET r == createTileset(sheets)
    IN  /\ tileset' = r.tiles
        /\ ret' = Ret("createTileset", <<>>, r.status, <<>>, <<>>, FALSE, sheets, <<>>)
        /\ UNCHANGED lvl

\* the loader builds the tileset of a level from its tilesheets, once
BuildTileset ==
    /\ ret.op = "none"
    /\ \E n \in 0..MaxSheets : \E sizes \in [1..n -> SheetSizes] :
          DoCreateTileset(SheetList(sizes))

NextTileset == BuildTileset

SpecTileset == InitTileset /\ [][NextTileset]_vars

-----------------------------------------------------------------------------
(* The layer assembler *)

\* the Levels layers are assembled for: grids of at most MaxCells cells
AssembleGrids == {g \in (1..MaxGrid) \X (1..MaxGrid) : g[1] * g[2] <= MaxCells}

AssembleLevels ==
    {NewLevel(o, tw, th, g[1], g[2], off) :
        o \in Orientations, tw \in 1..MaxTileDim, th \in 1..MaxTileDim,
        g \in AssembleGrids, off \in Offsets}

\* the tilesets layers are assembled from: none, one tile of 1x3 pixels, and
\* that tile followed by two tiles of 1x1 pixels
TallSheet(id) == Sheet(id, 1, 3, 1, 3)
WideSheet(id) == Sheet(id, 2, 1, 1, 1)

AssembleTilesets ==
    {createTileset(sheets).tiles :
        sheets \in {<<>>, <<TallSheet(1)>>, <<TallSheet(1), WideSheet(2)>>}}

\* the Level and tileset of the bottom-alignment example: 32x32 orthogonal
\* grid, zero offset, one tile of 48x48 pixels
ExampleLevel == NewLevel("orthogonal", 32, 32, 1, 1, ZeroPoint)
ExampleTileset == createTileset(<<Sheet(1, 48, 48, 48, 48)>>).tiles

\* the layer mappings of a w x h grid: every mapping of w*h entries, and one
\* that is a cell short
Mappings(w, h) ==
    [1..(w * h) -> 0..MaxEntry] \cup {[i \in 1..(w * h - 1) |-> 0]}

\* layer k of a list is named k and declares the grid of the Level
LayerList(w, h, maps) == [k \in 1..Len(maps) |-> Layer(k, w, h, maps[k])]

\* at most MaxLayers layers, of at most MaxCells cells in all
LayerCounts(w, h) == {n \in 0..MaxLayers : n * w * h <= MaxCells}

InitAssemble ==
    /\ \/ lvl \in AssembleLevels /\ tileset \in AssembleTilesets
       \/ lvl = ExampleLevel /\ tileset = ExampleTileset
    /\ ret = NoRet

DoCreateLevelTiles(layers) ==
    LET r == createLevelTiles(lvl, layers, tileset)
    IN  /\ lvl' = r.lvl
        /\ ret' = Ret("createLevelTiles", <<>>, r.status, <<>>, <<>>, FALSE, layers, r.layers)
        /\ UNCHANGED tileset

\* the loader assembles the layers of a level, once
Assemble ==
    /\ ret.op # "createLevelTiles"
    /\ \E n \in LayerCounts(lvl.width, lvl.height) :
         \E maps \in [1..n -> Mappings(lvl.width, lvl.height)] :
            DoCreateLevelTiles(LayerList(lvl.width, lvl.height, maps))

\* a position query made before the layers are assembled
Resolve ==
    /\ ret.op = "none"
    /\ DoMapToPosition(ZeroPoint)

NextAssemble == Assemble \/ Resolve

SpecAssemble == InitAssemble /\ [][NextAssemble]_vars

-----------------------------------------------------------------------------
(* Claims about the Level query surface, checked under Spec *)

AllUnset(l) ==
    l.MapToPoint.kind = "nil" /\ l.PointToMap.kind = "nil" /\ l.MapMaxBounds.kind = "nil"

AllSet(l) ==
    l.MapToPoint.kind # "nil" /\ l.PointToMap.kind # "nil" /\ l.MapMaxBounds.kind # "nil"

\* a step in which MapToPosition or PositionToMap returned
QueryReturned ==
    ret' # ret /\ ret'.op \in {"MapToPosition", "PositionToMap"}

\* C1: on a Level with an unsupported Orientation and unset strategy
\* functions, every MapToPosition or PositionToMap call returns an error and
\* no point and leaves the three strategy functions unset; on a Level whose
\* Orientation is (by now) a supported value, the call succeeds with a point.
C1_UnsupportedOrientationFails ==
    [][QueryReturned =>
        /\ (lvl.Orientation \notin Supported /\ AllUnset(lvl))
              => (ret'.status = "error" /\ ret'.point = <<>> /\ AllUnset(lvl'))
        /\ (lvl.Orientation \in Supported)
              => (ret'.status = "ok" /\ Len(ret'.point) = 1)]_vars

\* a call has failed, nothing is set, and the Orientation has been corrected
C1_Witness ==
    /\ ret.op \in {"MapToPosition", "PositionToMap"}
    /\ ret.status = "error" /\ ret.point = <<>>
    /\ AllUnset(lvl)
    /\ lvl.Orientation \in Supported

\* C9: the strategy functions are assigned at most once: a successful call
\* leaves all three set, and once they are set no call runs setupOrientation or
\* changes them, and MapToPosition keeps answering with the strategy set first.
C9_SetupAtMostOnce ==
    [][/\ (QueryReturned /\ ret'.status = "ok") => AllSet(lvl')
       /\ AllSet(lvl) =>
            /\ lvl'.MapToPoint = lvl.MapToPoint
            /\ lvl'.PointToMap = lvl.PointToMap
            /\ lvl'.MapMaxBounds = lvl.MapMaxBounds
            /\ QueryReturned => (ret'.setup = FALSE /\ ret'.status = "ok")
            /\ (QueryReturned /\ ret'.op = "MapToPosition") =>
                 LET m == CallMapToPoint(lvl.MapToPoint, ret'.arg[1])
                 IN  ret'.point = <<Point(FAdd(m.X, lvl.Offset.X), FAdd(m.Y, lvl.Offset.Y))>>]_vars

\* a call succeeded without setting anything up, on the strategy of an
\* Orientation the Level no longer has
C9_Witness ==
    /\ ret.op \in {"MapToPosition", "PositionToMap"}
    /\ ret.status = "ok" /\ ~ret.setup
    /\ AllSet(lvl)
    /\ lvl.Orientation \in Supported
    /\ lvl.MapToPoint.kind # lvl.Orientation

IsInt(f) == f[2] = 1
IsEven(n) == n % 2 = 0

\* C3: on an orthogonal or isometric Level with even TileWidth and
\* TileHeight, PositionToMap of the position MapToPosition gives for an integer
\* cell c is c.
C3_RoundTrip ==
    (/\ ret.op = "PositionToMap" /\ ret.status = "ok"
     /\ lvl.Orientation \in {"orthogonal", "isometric"}
     /\ lvl.PointToMap.kind = lvl.Orientation
     /\ IsEven(lvl.TileWidth) /\ IsEven(lvl.TileHeight)
     /\ Len(ret.given) = 1 /\ IsInt(ret.given[1].X) /\ IsInt(ret.given[1].Y))
    => ret.point = ret.given

\* C7: on a Level with a supported Orientation, queried before or not,
\* Bounds returns the box from Offset to Offset + maxBounds.
C7_Bounds ==
    (ret.op = "Bounds" /\ lvl.Orientation \in Supported)
    => /\ ret.status = "ok"
       /\ ret.box = <<[Min |-> lvl.Offset,
                       Max |-> IF lvl.Orientation = "orthogonal"
                               THEN Point(FAdd(lvl.Offset.X, F32(lvl.TileWidth * lvl.width)),
                                          FAdd(lvl.Offset.Y, F32(lvl.TileHeight * lvl.height)))
                               ELSE Point(FAdd(lvl.Offset.X,
                                               F32(lvl.TileWidth * lvl.width + lvl.TileWidth \div 2)),
                                          FAdd(lvl.Offset.Y,
                                               F32((lvl.TileHeight \div 2) * lvl.height
                                                   + lvl.TileHeight \div 2)))]>>

\* C8: the isometric MapToPoint maps (x, y) to ((x - y) * hw, (x + y) * hh),
\* both from the x and y it was given.
C8_IsometricForward ==
    (ret.op = "MapToPoint" /\ ret.status = "ok" /\ lvl.MapToPoint.kind = "isometric")
    => LET m  == ret.arg[1]
           hw == F32(lvl.TileWidth \div 2)
           hh == F32(lvl.TileHeight \div 2)
       IN  ret.point = <<Point(FMul(FSub(m.X, m.Y), hw), FMul(FAdd(m.X, m.Y), hh))>>

\* floor of a rational
Floor(f) == f[1] \div f[2]

\* C10: the staggered MapToPoint maps (x, y) to (x * tw + s, y * hh), where s
\* is hw exactly when floor(y) is odd, for negative and fractional y too.
C10_StaggeredForward ==
    (ret.op = "MapToPoint" /\ ret.status = "ok" /\ lvl.MapToPoint.kind = "staggered")
    => LET m  == ret.arg[1]
           hw == F32(lvl.TileWidth \div 2)
           hh == F32(lvl.TileHeight \div 2)
           s  == IF Floor(m.Y) % 2 = 1 THEN hw ELSE F32(0)
       IN  ret.point = <<Point(FAdd(FMul(m.X, F32(lvl.TileWidth)), s), FMul(m.Y, hh))>>

-----------------------------------------------------------------------------
(* Claim about the tileset builder, checked under SpecTileset *)

\* the tiles the claim gives for one sheet: floor(W/tw) * floor(H/th) tiles,
\* tile i in column i mod floor(W/tw) and row i div floor(W/tw)
ExpectedSheetTiles(sheet) ==
    LET W    == sheet.Width[1]
        H    == sheet.Height[1]
        tw   == sheet.TileWidth
        th   == sheet.TileHeight
        cols == W \div tw
        rows == H \div th
    IN  [n \in 1..(cols * rows) |->
            LET col == (n - 1) % cols
                row == (n - 1) \div cols
            IN  [Point |-> ZeroPoint,
                 Image |-> <<[id |-> sheet.Texture, width |-> F32(tw), height |-> F32(th),
                              viewport |-> [Min |-> Point(Rat(col * tw, W), Rat(row * th, H)),
                                            Max |-> Point(Rat(col * tw + tw, W),
                                                          Rat(row * th + th, H))]]>>]]

RECURSIVE ExpectedTileset(_, _)
ExpectedTileset(sheets, k) ==
    IF k > Len(sheets) THEN <<>>
    ELSE ExpectedSheetTiles(sheets[k]) \o ExpectedTileset(sheets, k + 1)

\* C4: createTileset returns, for the sheets in input order, exactly
\* floor(W/tw) * floor(H/th) tiles per sheet, each of pixel size (tw, th) and
\* with the UV rectangle of its column and row.
C4_Tileset ==
    ret.op = "createTileset"
    => (ret.status = "ok" /\ tileset = ExpectedTileset(ret.given, 1))

-----------------------------------------------------------------------------
(* Claims about the layer assembler, checked under SpecAssemble *)

\* the cells <<x, row>> of the grid of a Level
Cells(l) == (0..(l.width - 1)) \X (0..(l.height - 1))

\* the mapping entry of layer k at cell c = <<x, row>>
Entry(layers, k, c, l) == layers[k].TileMapping[c[1] + c[2] * l.width + 1]

FullMappings(layers, l) ==
    \A k \in 1..Len(layers) : Len(layers[k].TileMapping) = l.width * l.height

\* C2: a mapping entry m with m - 1 >= len(tileset) makes createLevelTiles
\* return a TileIndexOutOfRange error, and no TileLayer.
C2_TileIndexOutOfRange ==
    (/\ ret.op = "createLevelTiles"
     /\ lvl.Orientation \in Supported
     /\ FullMappings(ret.given, lvl)
     /\ \E k \in 1..Len(ret.given) : \E c \in Cells(lvl) :
            Entry(ret.given, k, c, lvl) - 1 >= Len(tileset))
    => (ret.status = "error" /\ ret.layers = <<>>)

\* the point the claim gives for the tile t of cell c
PlacedPoint(l, c, t) ==
    LET m == CallMapToPoint(l.MapToPoint, Point(F32(c[1]), F32(c[2])))
    IN  Point(FAdd(m.X, l.Offset.X),
              FSub(FAdd(m.Y, l.Offset.Y), FSub(t.Image[1].height, F32(l.TileHeight))))

\* C5: on a Level with a supported Orientation, the tile of every non-blank
\* cell (x, row) of every assembled layer is placed at MapToPoint(x, row) plus
\* Offset, its y reduced by the tile's pixel height minus TileHeight; a tile 48
\* high on the 32x32 orthogonal grid at cell (0, 0), zero offset, has y = -16.
C5_BottomAligned ==
    (ret.op = "createLevelTiles" /\ ret.status = "ok" /\ lvl.Orientation \in Supported)
    => \A k \in 1..Len(ret.layers) : \A c \in Cells(lvl) :
          LET t == ret.layers[k].Tiles[c[1] + c[2] * lvl.width + 1]
          IN  Entry(ret.given, k, c, lvl) # 0
              => /\ t.Point = PlacedPoint(lvl, c, t)
                 /\ (/\ lvl.Orientation = "orthogonal" /\ lvl.TileHeight = 32
                     /\ lvl.Offset = ZeroPoint /\ c = <<0, 0>>
                     /\ t.Image[1].height = F32(48))
                    => t.Point.Y = F32(-16)

\* a layer was assembled with a tile higher than TileHeight off the first
\* row, on a Level with an offset
C5_Witness ==
    /\ ret.op = "createLevelTiles" /\ ret.status = "ok"
    /\ lvl.Orientation \in Supported
    /\ lvl.Offset # ZeroPoint
    /\ \E k \in 1..Len(ret.layers) : \E c \in Cells(lvl) :
          /\ c[2] > 0
          /\ Entry(ret.given, k, c, lvl) # 0
          /\ ret.layers[k].Tiles[c[1] + c[2] * lvl.width + 1].Image[1].height
                # F32(lvl.TileHeight)

\* C6: for mappings of width*height entries, all in 0..len(tileset),
\* createLevelTiles returns one TileLayer per mapping, in order, of
\* width*height tiles in row-major order; the tile of a cell has no image and
\* no point iff its entry is 0 and otherwise has the image of
\* tileset[entry - 1].
C6_LayerStructure ==
    (/\ ret.op = "createLevelTiles"
     /\ FullMappings(ret.given, lvl)
     /\ \A k \in 1..Len(ret.given) : \A c \in Cells(lvl) :
            Entry(ret.given, k, c, lvl) \in 0..Len(tileset))
    => /\ ret.status = "ok"
       /\ Len(ret.layers) = Len(ret.given)
       /\ \A k \in 1..Len(ret.layers) :
            /\ ret.layers[k].Name = ret.given[k].Name
            /\ Len(ret.layers[k].Tiles) = lvl.width * lvl.height
            /\ \A c \in Cells(lvl) :
                 LET t == ret.layers[k].Tiles[c[1] + c[2] * lvl.width + 1]
                     e == Entry(ret.given, k, c, lvl)
                 IN  IF e = 0 THEN t.Image = <<>> /\ t.Point = ZeroPoint
                     ELSE t.Image = tileset[e].Image

====
